---- MODULE Spec2Model ----
(***************************************************************************)
(* Model of the Lottie optimizer (lib/lottie-optimizer.ts) and of the page *)
(* that drives it (src/app/page.tsx).                                      *)
(*                                                                         *)
(* A JavaScript value is a record [t |-> tag, v |-> payload]:              *)
(*   "undef", "null"           payload 0                                   *)
(*   "bool"                    payload TRUE / FALSE                        *)
(*   "num"                     payload an integer: the number in units of  *)
(*                             10^-MaxPrecision (fixed point)              *)
(*   "str"                     payload a string                            *)
(*   "arr"                     payload the sequence of the elements        *)
(*   "obj"                     payload the sequence of the entries         *)
(*                             [k |-> key, v |-> value] in insertion order *)
(*   "throw"                   a raised TypeError, in place of the value   *)
(*                             whose evaluation raised it                  *)
(***************************************************************************)
EXTENDS Integers, Sequences, FiniteSets, TLC

VARIABLES json, options, items, error, call, download

vars == <<json, options, items, error, call, download>>

----------------------------------------------------------------------------
(* JavaScript values *)

MaxPrecision == 4

Unit == 10 ^ MaxPrecision

Undef == [t |-> "undef", v |-> 0]

Null == [t |-> "null", v |-> 0]

Threw == [t |-> "throw", v |-> 0]

Bool(b) == [t |-> "bool", v |-> b]

Num(n) == [t |-> "num", v |-> n]

N(i) == Num(i * Unit)

Str(s) == [t |-> "str", v |-> s]

Arr(s) == [t |-> "arr", v |-> s]

Obj(es) == [t |-> "obj", v |-> es]

E(key, value) == [k |-> key, v |-> value]

IsArr(x) == x.t = "arr"

IsObj(x) == x.t = "obj"

IsNullish(x) == x.t \in {"null", "undef"}

Truthy(x) ==
  CASE x.t \in {"undef", "null"} -> FALSE
    [] x.t = "bool" -> x.v
    [] x.t = "num" -> x.v # 0
    [] x.t = "str" -> x.v # ""
    [] OTHER -> TRUE

Has(o, key) == IsObj(o) /\ \E i \in DOMAIN o.v : o.v[i].k = key

\* o.key : undefined on a primitive, on an array (for the non-index keys the
\* code reads) and on an object without the key.
Get(o, key) ==
  IF Has(o, key)
  THEN o.v[CHOOSE i \in DOMAIN o.v : o.v[i].k = key].v
  ELSE Undef

\* o.key = value : replaces in place, or appends a new entry.
Put(o, key, value) ==
  IF Has(o, key)
  THEN Obj([i \in DOMAIN o.v |-> IF o.v[i].k = key THEN E(key, value) ELSE o.v[i]])
  ELSE Obj(Append(o.v, E(key, value)))

\* delete o.key
Delete(o, key) == Obj(SelectSeq(o.v, LAMBDA e : e.k # key))

RECURSIVE DeleteAll(_, _)
DeleteAll(o, keys) ==
  IF keys = <<>> THEN o ELSE DeleteAll(Delete(o, Head(keys)), Tail(keys))

\* Object.entries(x): own enumerable string-keyed properties.
Chars(s) ==
  CASE Len(s) = 0 -> <<>>
    [] Len(s) = 1 -> <<E("0", Str(s))>>

Entries(x) ==
  CASE x.t = "obj" -> x.v
    [] x.t = "arr" -> [i \in DOMAIN x.v |-> E(ToString(i - 1), x.v[i])]
    [] x.t = "str" -> Chars(x.v)
    [] x.t \in {"num", "bool"} -> <<>>

\* A TypeError was raised somewhere while building x.
RECURSIVE Raised(_)
Raised(x) ==
  CASE x.t = "throw" -> TRUE
    [] x.t = "arr" -> \E i \in DOMAIN x.v : Raised(x.v[i])
    [] x.t = "obj" -> \E i \in DOMAIN x.v : Raised(x.v[i].v)
    [] OTHER -> FALSE

----------------------------------------------------------------------------
(* JSON.stringify / JSON.parse *)

RECURSIVE Digits(_)
Digits(n) == IF n < 10 THEN 1 ELSE 1 + Digits(n \div 10)

RECURSIVE FracDigits(_, _)
FracDigits(f, width) ==
  IF f = 0 THEN 0
  ELSE IF f % 10 = 0 THEN FracDigits(f \div 10, width - 1)
  ELSE width

\* Length of the decimal text of the number n / Unit.
NumberLength(n) ==
  LET m == IF n < 0 THEN 0 - n ELSE n
      f == FracDigits(m % Unit, MaxPrecision)
  IN (IF n < 0 THEN 1 ELSE 0) + Digits(m \div Unit) + (IF f = 0 THEN 0 ELSE 1 + f)

RECURSIVE Sum(_)
Sum(s) == IF s = <<>> THEN 0 ELSE Head(s) + Sum(Tail(s))

\* new Blob([JSON.stringify(x)]).size for ASCII text without escapes:
\* entries whose value is undefined are skipped, undefined array elements
\* are written as null.
Separators(n) == IF n > 1 THEN n - 1 ELSE 0

Defined(es) == SelectSeq(es, LAMBDA e : e.v.t # "undef")

RECURSIVE StringifySize(_)
EntriesSize(es) ==
  2 + Sum([i \in DOMAIN es |-> Len(es[i].k) + 3 + StringifySize(es[i].v)])
    + Separators(Len(es))

StringifySize(x) ==
  CASE x.t = "null" -> 4
    [] x.t = "undef" -> 4
    [] x.t = "bool" -> IF x.v THEN 4 ELSE 5
    [] x.t = "num" -> NumberLength(x.v)
    [] x.t = "str" -> Len(x.v) + 2
    [] x.t = "arr" ->
         2 + Sum([i \in DOMAIN x.v |-> StringifySize(x.v[i])]) + Separators(Len(x.v))
    [] x.t = "obj" -> EntriesSize(Defined(x.v))

\* JSON.parse(JSON.stringify(x)): the value the text of x denotes.
RECURSIVE JsonRoundTrip(_)
ParsedEntries(es) == Obj([i \in DOMAIN es |-> E(es[i].k, JsonRoundTrip(es[i].v))])

JsonRoundTrip(x) ==
  CASE x.t = "undef" -> Null
    [] x.t = "arr" -> Arr([i \in DOMAIN x.v |-> JsonRoundTrip(x.v[i])])
    [] x.t = "obj" -> ParsedEntries(Defined(x.v))
    [] OTHER -> x

----------------------------------------------------------------------------
(* The heap: the objects a pass mutates in place are the top-level objects,
   so a reference is an index into the sequence of top-level objects.     *)

Alloc(h, x) == [h |-> Append(h, x), r |-> Len(h) + 1]

\* a clone that is the object itself
deepCloneAlias(h, r) == [h |-> h, r |-> r]

deepClone(h, r) == Alloc(h, JsonRoundTrip(h[r]))

----------------------------------------------------------------------------
(* Rewrite passes that build a new value *)

\* a rounding that cuts the digits off
roundNumberDown(num, precision) ==
  LET q == 10 ^ (MaxPrecision - precision)
  IN (num \div q) * q

\* Math.round(num * 10^precision) / 10^precision, Math.round being the
\* nearest integer with ties towards +infinity.
roundNumber(num, precision) ==
  LET q == 10 ^ (MaxPrecision - precision)
  IN ((num + (q \div 2)) \div q) * q

RECURSIVE roundDecimals(_, _)
roundDecimals(obj, precision) ==
  CASE obj.t = "num" -> Num(roundNumber(obj.v, precision))
    [] obj.t = "arr" -> Arr([i \in DOMAIN obj.v |-> roundDecimals(obj.v[i], precision)])
    [] obj.t = "obj" ->
         Obj([i \in DOMAIN obj.v |->
                E(obj.v[i].k, roundDecimals(obj.v[i].v, precision))])
    [] OTHER -> obj

\* a test that drops a name whatever its type
UnnecessaryPropertyAnyName(key, value) ==
  \/ IsNullish(value)
  \/ key \in {"mn", "ln", "cl", "nm"}
  \/ key = "ix" /\ value.t = "num"
  \/ key = "cix" /\ value.t = "num"
  \/ key = "bm" /\ value = N(0)
  \/ key = "ddd" /\ value = N(0)
  \/ key = "ao" /\ value = N(0)
  \/ key = "sr" /\ value = N(1)
  \/ key = "hd" /\ value = Bool(FALSE)

UnnecessaryProperty(key, value) ==
  \/ IsNullish(value)
  \/ key \in {"mn", "ln", "cl"}
  \/ key = "nm" /\ value.t = "str"
  \/ key = "ix" /\ value.t = "num"
  \/ key = "cix" /\ value.t = "num"
  \/ key = "bm" /\ value = N(0)
  \/ key = "ddd" /\ value = N(0)
  \/ key = "ao" /\ value = N(0)
  \/ key = "sr" /\ value = N(1)
  \/ key = "hd" /\ value = Bool(FALSE)

RECURSIVE removeUnnecessaryProperties(_)
\* result[key] = removeUnnecessaryProperties(value) for the entries es
NecessaryProperties(es) ==
  Obj([i \in DOMAIN es |-> E(es[i].k, removeUnnecessaryProperties(es[i].v))])

removeUnnecessaryProperties(obj) ==
  CASE obj.t = "arr" -> Arr([i \in DOMAIN obj.v |-> removeUnnecessaryProperties(obj.v[i])])
    [] obj.t = "obj" ->
         NecessaryProperties(
           SelectSeq(obj.v, LAMBDA e : ~UnnecessaryProperty(e.k, e.v)))
    [] OTHER -> obj

\* Math.abs(x - 0.5) < 0.01.  Number() of a one-element array is Number()
\* of its element; of undefined, an object, a longer array or a string that
\* is no numeral it is NaN; of null, a boolean or the empty string it is 0
\* or 1.  The files hold no string that is a numeral.
RECURSIVE NearHalf(_)
NearHalf(x) ==
  CASE x.t = "num" ->
         LET d == x.v - (Unit \div 2)
         IN (IF d < 0 THEN 0 - d ELSE d) < (Unit \div 100)
    [] x.t = "arr" /\ Len(x.v) = 1 -> NearHalf(x.v[1])
    [] OTHER -> FALSE

\* bezier.x[0] when bezier.x is an array, bezier.x otherwise
FirstOf(c) == IF IsArr(c) THEN (IF Len(c.v) > 0 THEN c.v[1] ELSE Undef) ELSE c

RedundantHandle(kfKey, bezier) ==
  /\ kfKey \in {"i", "o"}
  /\ Truthy(bezier)
  /\ bezier.t \in {"obj", "arr"}
  /\ NearHalf(FirstOf(Get(bezier, "x")))
  /\ NearHalf(FirstOf(Get(bezier, "y")))

\* The body of keyframes.map: Object.entries(kf) raises on null.
SimplifyKeyframe(kf) ==
  IF IsNullish(kf) THEN Threw
  ELSE Obj(SelectSeq(Entries(kf), LAMBDA e : ~RedundantHandle(e.k, e.v)))

IsKeyframeArray(value) ==
  /\ IsArr(value)
  /\ Len(value.v) > 0
  /\ IsObj(value.v[1])
  /\ Has(value.v[1], "t")

RECURSIVE simplifyKeyframes(_)
SimplifyEntry(key, value) ==
  IF key = "k" /\ IsKeyframeArray(value)
  THEN Arr([i \in DOMAIN value.v |-> SimplifyKeyframe(value.v[i])])
  ELSE simplifyKeyframes(value)

simplifyKeyframes(obj) ==
  CASE obj.t = "arr" -> Arr([i \in DOMAIN obj.v |-> simplifyKeyframes(obj.v[i])])
    [] obj.t = "obj" ->
         Obj([i \in DOMAIN obj.v |->
                E(obj.v[i].k, SimplifyEntry(obj.v[i].k, obj.v[i].v))])
    [] OTHER -> obj

\* a filter that drops only the groups without items
EmptyGroupStrict(item) ==
  /\ IsObj(item)
  /\ Get(item, "ty") = Str("gr")
  /\ IsArr(Get(item, "it"))
  /\ Len(Get(item, "it").v) < 1

EmptyGroup(item) ==
  /\ IsObj(item)
  /\ Get(item, "ty") = Str("gr")
  /\ IsArr(Get(item, "it"))
  /\ Len(Get(item, "it").v) <= 1

RECURSIVE removeEmptyGroups(_)
removeEmptyGroups(obj) ==
  CASE obj.t = "arr" ->
         Arr(SelectSeq([i \in DOMAIN obj.v |-> removeEmptyGroups(obj.v[i])],
                       LAMBDA item : ~EmptyGroup(item)))
    [] obj.t = "obj" ->
         Obj([i \in DOMAIN obj.v |->
                E(obj.v[i].k, removeEmptyGroups(obj.v[i].v))])
    [] OTHER -> obj

RECURSIVE removeExpressions(_)
\* result[key] = removeExpressions(value) for the entries es
WithoutExpressions(es) ==
  Obj([i \in DOMAIN es |-> E(es[i].k, removeExpressions(es[i].v))])

removeExpressions(obj) ==
  CASE obj.t = "arr" -> Arr([i \in DOMAIN obj.v |-> removeExpressions(obj.v[i])])
    [] obj.t = "obj" ->
         WithoutExpressions(
           SelectSeq(obj.v, LAMBDA e : ~(e.k = "x" /\ e.v.t = "str")))
    [] OTHER -> obj

RECURSIVE removeEffects(_)
\* result[key] = removeEffects(value) for the entries es
WithoutEffects(es) ==
  Obj([i \in DOMAIN es |-> E(es[i].k, removeEffects(es[i].v))])

removeEffects(obj) ==
  CASE obj.t = "arr" -> Arr([i \in DOMAIN obj.v |-> removeEffects(obj.v[i])])
    [] obj.t = "obj" ->
         WithoutEffects(SelectSeq(obj.v, LAMBDA e : ~(e.k = "ef" /\ IsArr(e.v))))
    [] OTHER -> obj

Every(k, value) == \A i \in DOMAIN k.v : k.v[i] = value

OneOf(k, value) == k = value \/ (IsArr(k) /\ Len(k.v) = 1 /\ k.v[1] = value)

DefaultValue(tKey, k) ==
  \/ tKey = "o" /\ OneOf(k, N(100))
  \/ tKey = "r" /\ OneOf(k, N(0))
  \/ tKey = "p" /\ IsArr(k) /\ Every(k, N(0))
  \/ tKey = "a" /\ IsArr(k) /\ Every(k, N(0))
  \/ tKey = "s" /\ IsArr(k) /\ Every(k, N(100))

IsDefault(tKey, tValue) ==
  /\ IsObj(tValue)
  /\ Get(tValue, "a") = N(0) \/ Get(tValue, "a") = Undef
  /\ DefaultValue(tKey, Get(tValue, "k"))

RECURSIVE collapseTransforms(_)
\* newTransform[tKey] = collapseTransforms(tValue) for the entries es
NewTransform(es) ==
  Obj([i \in DOMAIN es |-> E(es[i].k, collapseTransforms(es[i].v))])

CollapseEntry(key, value) ==
  IF key = "ks" /\ IsObj(value)
  THEN NewTransform(SelectSeq(value.v, LAMBDA e : ~IsDefault(e.k, e.v)))
  ELSE collapseTransforms(value)

collapseTransforms(obj) ==
  CASE obj.t = "arr" -> Arr([i \in DOMAIN obj.v |-> collapseTransforms(obj.v[i])])
    [] obj.t = "obj" ->
         Obj([i \in DOMAIN obj.v |->
                E(obj.v[i].k, CollapseEntry(obj.v[i].k, obj.v[i].v))])
    [] OTHER -> obj

\* kf.s : raises on null, undefined on other primitives and on arrays
StartValue(kf) == IF IsNullish(kf) THEN Threw ELSE Get(kf, "s")

\* values.every(v => v === values[0]) on the texts JSON.stringify(kf.s)
SameText(values, first) ==
  \A i \in DOMAIN values : JsonRoundTrip(StartValue(values[i])) = first

\* Lines 394-403 on the rebuilt object, k being result.k: the static
\* property, a raised TypeError, or the object itself.
Collapsed(result, k, kfs) ==
  IF Len(kfs) > 0 /\ SameText(kfs, JsonRoundTrip(StartValue(kfs[1])))
  THEN Obj(<<E("a", N(0)), E("k", StartValue(k.v[1]))>>)
  ELSE result

CollapseKeyframes(result, k) ==
  IF Get(result, "a") = N(1) /\ IsKeyframeArray(k)
  THEN IF \E i \in DOMAIN k.v : IsNullish(k.v[i])
       THEN Threw
       ELSE Collapsed(result, k, SelectSeq(k.v, LAMBDA kf : StartValue(kf) # Undef))
  ELSE result

CollapseProperty(result) ==
  IF Raised(result) THEN Threw ELSE CollapseKeyframes(result, Get(result, "k"))

RECURSIVE collapseDuplicateKeyframes(_)
collapseDuplicateKeyframes(obj) ==
  CASE obj.t = "arr" -> Arr([i \in DOMAIN obj.v |-> collapseDuplicateKeyframes(obj.v[i])])
    [] obj.t = "obj" ->
         CollapseProperty(Obj([i \in DOMAIN obj.v |->
                                 E(obj.v[i].k, collapseDuplicateKeyframes(obj.v[i].v))]))
    [] OTHER -> obj

----------------------------------------------------------------------------
(* Passes that clone the document and then assign to the clone.  Each takes
   the heap and the reference of its argument and gives the heap, the
   reference it returns and whether it raised.                            *)

Returned(h, r) == [h |-> h, r |-> r, threw |-> FALSE]

Thrown(h, r) == [h |-> h, r |-> r, threw |-> TRUE]

\* optimized = pass(optimized) for a pass that builds a new value x
Stored(a) == Returned(a.h, a.r)

Rebuilt(h, r, x) == IF Raised(x) THEN Thrown(h, r) ELSE Stored(Alloc(h, x))

\* const result = deepClone(animation); ... ; return result, x being what
\* the assignments of the pass make of the clone c
Assigned(c, x) ==
  IF Raised(x) THEN Thrown(c.h, c.r)
  ELSE Returned([c.h EXCEPT ![c.r] = x], c.r)

MetadataKeys ==
  <<"meta", "markers", "fonts", "chars",
    "__typename", "created", "modified", "author", "description">>

RemoveMetadataOf(result) == DeleteAll(result, MetadataKeys)

RemoveMetadataIn(c) == Assigned(c, RemoveMetadataOf(c.h[c.r]))

removeMetadata(h, animation) == RemoveMetadataIn(deepClone(h, animation))

\* a filter that tests hd for truthiness
HiddenLayerTruthy(layer) == Truthy(Get(layer, "hd")) \/ Get(layer, "ty") = N(3)

HiddenLayer(layer) == Get(layer, "hd") = Bool(TRUE) \/ Get(layer, "ty") = N(3)

\* layers.filter raises when layers is no array (a truthy value without a
\* filter method) and when the callback reads layer.hd of null.
filterLayers(layers) ==
  IF ~Truthy(layers) THEN layers
  ELSE IF ~IsArr(layers) THEN Threw
  ELSE IF \E i \in DOMAIN layers.v : IsNullish(layers.v[i]) THEN Threw
  ELSE Arr(SelectSeq(layers.v, LAMBDA layer : ~HiddenLayer(layer)))

\* the callback of result.assets.map
FilterAssetLayers(asset) ==
  IF IsNullish(asset) THEN Threw
  ELSE IF Truthy(Get(asset, "layers"))
  THEN Put(asset, "layers", filterLayers(Get(asset, "layers")))
  ELSE asset

FilterAssets(assets) ==
  IF ~Truthy(assets) THEN assets
  ELSE IF ~IsArr(assets) THEN Threw
  ELSE Arr([i \in DOMAIN assets.v |-> FilterAssetLayers(assets.v[i])])

\* lines 177-184, after result.layers has been assigned
RemoveHiddenAssetLayers(result) ==
  IF Raised(result) \/ ~Truthy(Get(result, "assets")) THEN result
  ELSE Put(result, "assets", FilterAssets(Get(result, "assets")))

RemoveHiddenLayersOf(result) ==
  RemoveHiddenAssetLayers(Put(result, "layers", filterLayers(Get(result, "layers"))))

RemoveHiddenLayersIn(c) == Assigned(c, RemoveHiddenLayersOf(c.h[c.r]))

removeHiddenLayers(h, animation) == RemoveHiddenLayersIn(deepClone(h, animation))

\* result.assets.map(asset => asset), whose callback reads asset.p
SameAssets(assets) ==
  IF ~IsArr(assets) \/ \E i \in DOMAIN assets.v : IsNullish(assets.v[i])
  THEN Threw ELSE assets

CompressImagesOf(result) ==
  IF ~Truthy(Get(result, "assets")) THEN result
  ELSE Put(result, "assets", SameAssets(Get(result, "assets")))

CompressImagesIn(c) == Assigned(c, CompressImagesOf(c.h[c.r]))

compressBase64Images(h, animation) == CompressImagesIn(deepClone(h, animation))

RECURSIVE findUsedAssets(_)
findUsedAssets(obj) ==
  CASE obj.t = "arr" -> UNION {findUsedAssets(obj.v[i]) : i \in DOMAIN obj.v}
    [] obj.t = "obj" ->
         (IF Truthy(Get(obj, "refId")) /\ Get(obj, "refId").t = "str"
          THEN {Get(obj, "refId").v} ELSE {})
         \cup UNION {findUsedAssets(obj.v[i].v) : i \in DOMAIN obj.v}
    [] OTHER -> {}

\* result.assets.find(a => a.id === id)
FindAsset(assets, id) ==
  IF \E i \in DOMAIN assets.v : Get(assets.v[i], "id") = Str(id)
  THEN assets.v[CHOOSE i \in DOMAIN assets.v :
                  /\ Get(assets.v[i], "id") = Str(id)
                  /\ \A j \in 1..(i - 1) : Get(assets.v[j], "id") # Str(id)]
  ELSE Undef

\* the callback of usedAssetIds.forEach: the ids it adds
NestedUses(assets, id) ==
  IF Truthy(Get(FindAsset(assets, id), "layers"))
  THEN findUsedAssets(Get(FindAsset(assets, id), "layers"))
  ELSE {}

\* usedAssetIds.forEach: Set.prototype.forEach also visits the ids the
\* callback adds, so the loop ends when a round adds nothing.
RECURSIVE ScanUsedAssets(_, _)
ScanMore(assets, usedAssetIds, nested) ==
  IF nested \subseteq usedAssetIds THEN usedAssetIds
  ELSE ScanUsedAssets(assets, usedAssetIds \cup nested)

ScanUsedAssets(assets, usedAssetIds) ==
  ScanMore(assets, usedAssetIds,
           UNION {NestedUses(assets, id) : id \in usedAssetIds})

IsUsed(asset, usedAssetIds) ==
  Get(asset, "id").t = "str" /\ Get(asset, "id").v \in usedAssetIds

\* result.assets.filter(asset => usedAssetIds.has(asset.id))
UsedAssets(assets, usedAssetIds) ==
  Arr(SelectSeq(assets.v, LAMBDA asset : IsUsed(asset, usedAssetIds)))

\* lines 416-439: find and filter raise when assets is no array, and their
\* callbacks when they read the id of null
FilterUsed(result, assets, layers) ==
  IF ~IsArr(assets) \/ \E i \in DOMAIN assets.v : IsNullish(assets.v[i])
  THEN Threw
  ELSE Put(result, "assets",
           UsedAssets(assets, ScanUsedAssets(assets, findUsedAssets(layers))))

RemoveUnusedAssetsOf(result) ==
  IF ~Truthy(Get(result, "assets")) \/ ~Truthy(Get(result, "layers")) THEN result
  ELSE FilterUsed(result, Get(result, "assets"), Get(result, "layers"))

RemoveUnusedAssetsIn(c) == Assigned(c, RemoveUnusedAssetsOf(c.h[c.r]))

removeUnusedAssets(h, animation) == RemoveUnusedAssetsIn(deepClone(h, animation))

----------------------------------------------------------------------------
(* The pipeline *)

OptionFlags ==
  {"removeHiddenLayers", "roundDecimals", "removeMetadata", "removeEmptyGroups",
   "simplifyKeyframes", "removeDefaultValues", "compressImages",
   "removeExpressions", "removeEffects", "collapseTransforms",
   "collapseDuplicateKeyframes"}

AggressiveFlags ==
  {"removeExpressions", "removeEffects", "collapseTransforms",
   "collapseDuplicateKeyframes"}

OptionKeys == OptionFlags \cup {"decimalPrecision"}

defaultOptions ==
  [key \in OptionKeys |->
     IF key = "decimalPrecision" THEN 2 ELSE key \notin AggressiveFlags]

\* if (flag) optimized = pass(optimized): the pass is skipped when its flag
\* is false, and nothing runs once a pass has raised
Skip(st, flag) == st.threw \/ ~flag

ApplyRemoveMetadata(st, opts) ==
  IF Skip(st, opts.removeMetadata) THEN st ELSE removeMetadata(st.h, st.r)

ApplyRemoveHiddenLayers(st, opts) ==
  IF Skip(st, opts.removeHiddenLayers) THEN st ELSE removeHiddenLayers(st.h, st.r)

ApplyRemoveUnusedAssets(st) ==
  IF st.threw THEN st ELSE removeUnusedAssets(st.h, st.r)

ApplyRemoveEmptyGroups(st, opts) ==
  IF Skip(st, opts.removeEmptyGroups) THEN st
  ELSE Rebuilt(st.h, st.r, removeEmptyGroups(st.h[st.r]))

ApplySimplifyKeyframes(st, opts) ==
  IF Skip(st, opts.simplifyKeyframes) THEN st
  ELSE Rebuilt(st.h, st.r, simplifyKeyframes(st.h[st.r]))

ApplyRemoveDefaultValues(st, opts) ==
  IF Skip(st, opts.removeDefaultValues) THEN st
  ELSE Rebuilt(st.h, st.r, removeUnnecessaryProperties(st.h[st.r]))

ApplyRoundDecimals(st, opts) ==
  IF Skip(st, opts.roundDecimals) THEN st
  ELSE Rebuilt(st.h, st.r, roundDecimals(st.h[st.r], opts.decimalPrecision))

ApplyCompressImages(st, opts) ==
  IF Skip(st, opts.compressImages) THEN st ELSE compressBase64Images(st.h, st.r)

ApplyRemoveExpressions(st, opts) ==
  IF Skip(st, opts.removeExpressions) THEN st
  ELSE Rebuilt(st.h, st.r, removeExpressions(st.h[st.r]))

ApplyRemoveEffects(st, opts) ==
  IF Skip(st, opts.removeEffects) THEN st
  ELSE Rebuilt(st.h, st.r, removeEffects(st.h[st.r]))

ApplyCollapseTransforms(st, opts) ==
  IF Skip(st, opts.collapseTransforms) THEN st
  ELSE Rebuilt(st.h, st.r, collapseTransforms(st.h[st.r]))

ApplyCollapseDuplicateKeyframes(st, opts) ==
  IF Skip(st, opts.collapseDuplicateKeyframes) THEN st
  ELSE Rebuilt(st.h, st.r, collapseDuplicateKeyframes(st.h[st.r]))

\* lines 451-459
Prepared(c, opts) ==
  ApplyRemoveHiddenLayers(ApplyRemoveMetadata(Returned(c.h, c.r), opts), opts)

\* lines 463-481
Safe(st, opts) ==
  ApplyCompressImages(
    ApplyRoundDecimals(
      ApplyRemoveDefaultValues(
        ApplySimplifyKeyframes(
          ApplyRemoveEmptyGroups(st, opts), opts), opts), opts), opts)

\* lines 483-497
Aggressive(st, opts) ==
  ApplyCollapseDuplicateKeyframes(
    ApplyCollapseTransforms(
      ApplyRemoveEffects(
        ApplyRemoveExpressions(st, opts), opts), opts), opts)

\* savings / originalSize without the factor 100
PercentageAsRatio(savings, originalSize) == [n |-> savings, d |-> originalSize]

\* (savings / originalSize) * 100 as the fraction n / d.  The division has no
\* guard: with d = 0 the fraction stands for what the division by zero gives,
\* NaN or an infinity.
Percentage(savings, originalSize) == [n |-> savings * 100, d |-> originalSize]

\* lines 499-511
Result(originalSize, optimizedSize, optimized) ==
  [originalSize |-> originalSize,
   optimizedSize |-> optimizedSize,
   savings |-> originalSize - optimizedSize,
   savingsPercentage |-> Percentage(originalSize - optimizedSize, originalSize),
   optimizedAnimation |-> optimized]

\* the size of the input reported for the output too
MeasuredAsOriginal(originalSize, optimized) ==
  Result(originalSize, originalSize, optimized)

Measured(originalSize, optimized) ==
  Result(originalSize, StringifySize(optimized), optimized)

\* What the call leaves: whether it raised, the heap, the argument and the
\* value of removeUnusedAssets when it ran, and the value returned.
Outcome(originalSize, before, after, st) ==
  [threw |-> st.threw,
   h |-> st.h,
   unused |-> IF before.threw THEN <<>>
              ELSE IF after.threw THEN <<before.h[before.r]>>
              ELSE <<before.h[before.r], after.h[after.r]>>,
   result |-> IF st.threw THEN Undef ELSE Measured(originalSize, st.h[st.r])]

Finished(originalSize, before, after, opts) ==
  Outcome(originalSize, before, after, Aggressive(Safe(after, opts), opts))

Cleaned(originalSize, before, opts) ==
  Finished(originalSize, before, ApplyRemoveUnusedAssets(before), opts)

optimizeLottie(h, animation, opts) ==
  Cleaned(StringifySize(h[animation]), Prepared(deepClone(h, animation), opts), opts)

\* validateLottie without the check of h
validateLottieNoHeight(x) ==
  /\ Truthy(x)
  /\ x.t \in {"obj", "arr"}
  /\ Get(x, "v").t = "str"
  /\ Get(x, "fr").t = "num"
  /\ Get(x, "ip").t = "num"
  /\ Get(x, "op").t = "num"
  /\ Get(x, "w").t = "num"

validateLottie(x) ==
  /\ Truthy(x)
  /\ x.t \in {"obj", "arr"}
  /\ Get(x, "v").t = "str"
  /\ Get(x, "fr").t = "num"
  /\ Get(x, "ip").t = "num"
  /\ Get(x, "op").t = "num"
  /\ Get(x, "w").t = "num"
  /\ Get(x, "h").t = "num"

----------------------------------------------------------------------------
(* The uploaded files *)

MaxAssets == 2

Required ==
  <<E("v", Str("5.5.0")), E("fr", Num(299760)), E("ip", N(0)),
    E("op", N(30)), E("w", N(100)), E("h", N(100))>>

Doc(extra) == Obj(Required \o extra)

O1(k1, v1) == Obj(<<E(k1, v1)>>)

O2(k1, v1, k2, v2) == Obj(<<E(k1, v1), E(k2, v2)>>)

O3(k1, v1, k2, v2, k3, v3) == Obj(<<E(k1, v1), E(k2, v2), E(k3, v3)>>)

A1(x) == Arr(<<x>>)

A2(x, y) == Arr(<<x, y>>)

Ref(id) == O2("ty", N(0), "refId", Str(id))

\* Sequences without repetition of at most n elements of S
RECURSIVE Lists(_, _)
Lists(S, n) ==
  IF n = 0 THEN {<<>>}
  ELSE {<<>>} \cup {<<p[1]>> \o p[2] :
                      p \in {q \in S \X Lists(S, n - 1) :
                               \A i \in DOMAIN q[2] : q[2][i] # q[1]}}

\* values validateLottie is given: not an object, a field missing, a field
\* of another type
ValidationFiles ==
  {Null, Bool(TRUE), N(5), N(0), Str("x"), Str(""), Arr(<<>>), Obj(<<>>), Doc(<<>>),
   Doc(<<E("layers", N(5)), E("assets", Null)>>)}
  \cup {Obj(SelectSeq(Required, LAMBDA e : e.k # key) \o <<E("layers", Arr(<<>>))>>) :
          key \in {"v", "fr", "ip", "op", "w", "h"}}
  \cup {Obj([i \in DOMAIN Required |->
               IF Required[i].k = key THEN E(key, x) ELSE Required[i]]) :
          key \in {"v", "fr", "ip", "op", "w", "h"},
          x \in {Null, Str("30"), N(30)}}

\* layer lists and asset lists with references between them
ChainAssets ==
  {O2("id", Str("a"), "layers", A1(Ref("b"))),
   O2("id", Str("b"), "layers", A1(Ref("c"))),
   O1("id", Str("c"))}

RefAssets == ChainAssets \cup {O1("id", Str(""))}

RefLayers ==
  {Ref("a"),
   O3("ty", N(4), "refId", Str("a"), "hd", Bool(TRUE)),
   O2("ty", N(3), "refId", Str("b")),
   O2("ty", N(4), "refId", Str(""))}

LayerFields == {<<>>} \cup {<<E("layers", A1(l))>> : l \in RefLayers}

ReferenceFiles ==
  {Doc(ls \o <<E("assets", Arr(l))>>) :
     ls \in LayerFields, l \in Lists(RefAssets, MaxAssets)}

\* a chain of references a -> b -> c in every order of the asset list, and
\* references outside the layer lists
ChainFiles ==
  {Doc(<<E("layers", A1(Ref("a"))), E("assets", Arr(l))>> \o ex) :
     l \in {m \in Lists(ChainAssets, 3) : Len(m) = 3},
     ex \in {<<>>, <<E("comps", A1(O1("refId", Str("c"))))>>}}

\* references inside effects and groups and in fields that are no layer
\* lists; an asset without id; nested layers that are hidden
SpecialFiles ==
  {Doc(<<E("layers", A1(l)), E("assets", A2(O1("id", Str("a")), O1("p", Str("x"))))>>) :
     l \in {O2("ty", N(4), "ef", A1(O1("refId", Str("a")))),
            O2("ty", N(4), "shapes",
               A1(O2("ty", Str("gr"), "it", A1(O1("refId", Str("a")))))),
            O1("ty", N(4))}}
  \cup {Doc(<<E("layers", Arr(<<>>)),
             E("assets", A2(O1("id", Str("b")), O1("id", Str("c")))),
             E("comps", A1(O1("refId", Str("c"))))>>),
        Doc(<<E("layers", A1(Ref("a"))),
             E("assets", A2(O2("id", Str("a"), "fonts", O1("refId", Str("b"))),
                            O1("id", Str("b"))))>>),
        Doc(<<E("layers", A1(Ref("a"))),
             E("assets",
               A2(O2("id", Str("a"), "layers",
                     Arr(<<O3("ty", N(0), "refId", Str("c"), "hd", Bool(TRUE)),
                           O1("ty", N(3)), Ref("a")>>)),
                  O1("id", Str("c"))))>>),
        Doc(<<E("layers", A1(Ref("a"))),
             E("assets", A2(O1("id", Str("a")),
                            O2("id", Str("a"), "layers", A1(Ref("b")))))>>)}

\* keyframe arrays, well formed and malformed, in a layer's transform and at
\* the top level of the document
Handle(x, y) == O2("x", x, "y", y)

FirstKeyframes ==
  {Obj(<<E("t", N(0)), E("s", A1(N(1))),
         E("i", Handle(A1(Num(5000)), A1(Num(5050)))),
         E("o", Handle(A2(Num(5000), N(1)), A1(Num(5000))))>>),
   Obj(<<E("t", N(0)), E("s", A1(N(1))),
         E("i", Handle(Num(5000), Num(5100))),
         E("o", O1("x", Num(5000)))>>),
   O2("t", N(0), "i", Null)}

NextKeyframes ==
  {O2("t", N(10), "s", A1(N(1))),
   O2("t", N(10), "s", A1(N(2))),
   O1("s", A1(N(1))),
   Null, Str("x"), N(5), A2(N(1), N(2))}

Keyframes ==
  {<<f>> : f \in FirstKeyframes}
  \cup {<<f, n>> : f \in FirstKeyframes, n \in NextKeyframes}
  \cup {<<O1("s", A1(N(1))), O1("s", A1(N(1)))>>}

Animated(k) == O2("a", N(1), "k", Arr(k))

KeyframeFiles ==
  {Doc(<<E("layers", A1(O2("ty", N(4), "ks", O1("o", Animated(k)))))>>) :
     k \in Keyframes}
  \cup {Doc(<<E("a", N(1)), E("k", Arr(<<f>>))>>) : f \in FirstKeyframes}

\* layers or assets that are no arrays, or arrays with entries that are no
\* objects
Malformed ==
  {Null, N(5), Str("x"), O1("refId", Str("a")), A1(Null), A1(N(5))}

MalformedFiles ==
  {Doc(<<E("layers", x)>>) : x \in Malformed}
  \cup {Doc(<<E("assets", x)>>) : x \in Malformed}
  \cup {Doc(<<E("layers", A1(Ref("a"))), E("assets", x)>>) : x \in Malformed}
  \cup {Doc(<<E("layers", x), E("assets", A1(O1("id", Str("a"))))>>) :
          x \in Malformed}
  \cup {Doc(<<E("layers", A1(Ref("a"))),
             E("assets", A1(O2("id", Str("a"), "layers", x)))>>) :
          x \in Malformed}

\* metadata, default values, numbers to round, expressions, effects, groups
\* and transforms
Static(k) == O2("a", N(0), "k", k)

Transforms ==
  {Obj(<<E("o", Static(N(100))), E("r", Static(N(0))),
         E("p", Static(A2(N(0), N(0)))), E("a", Static(A1(N(0)))),
         E("s", Static(A2(N(100), N(100))))>>),
   Obj(<<E("o", Static(A1(N(100)))), E("r", Static(A1(N(0)))),
         E("p", O1("k", A2(N(0), N(0)))), E("s", Static(N(100)))>>),
   Obj(<<E("o", Static(Num(12345))), E("r", Static(Num(-5000))),
         E("p", Static(A2(N(0), Num(15000)))),
         E("s", Static(A2(N(100), N(50)))), E("x", Str("wiggle"))>>)}

Groups ==
  {A1(O2("ty", Str("gr"), "it", A1(O1("ty", Str("fl"))))),
   A1(O2("ty", Str("gr"), "it",
         A2(O1("ty", Str("fl")), O2("ty", Str("gr"), "it", Arr(<<>>))))),
   A2(O1("ty", Str("fl")),
      O2("ty", Str("gr"), "it", A2(O1("ty", Str("fl")), O1("ty", Str("st")))))}

Defaults ==
  {<<E("nm", Str("layer")), E("mn", Str("m")), E("ix", N(1)), E("ddd", N(0)),
     E("ao", N(0)), E("sr", N(1)), E("bm", N(0)), E("hd", Bool(FALSE)), E("cl", Null)>>,
   <<E("ao", N(1)), E("sr", N(2)), E("bm", N(1)), E("nm", N(5)), E("ln", Null)>>}

Metadata ==
  <<E("meta", O1("g", Str("tool"))), E("markers", Arr(<<>>)), E("nm", Str("anim")),
    E("author", Str("me")), E("ddd", N(0))>>

PropertyFiles ==
  {Doc(Metadata
       \o <<E("layers", A1(Obj(<<E("ty", N(4))>> \o d
                               \o <<E("ks", t), E("shapes", g),
                                    E("ef", A1(O1("v", Static(Num(12345)))))>>)))>>) :
     d \in Defaults, t \in Transforms, g \in Groups}

Files ==
  ValidationFiles \cup ReferenceFiles \cup ChainFiles \cup SpecialFiles
  \cup KeyframeFiles \cup MalformedFiles \cup PropertyFiles

\* The option records: the defaults of the page, every pass disabled, every
\* pass enabled, and the records that differ from one of these in one key.
PresetOptions ==
  {defaultOptions,
   [key \in OptionKeys |-> IF key = "decimalPrecision" THEN 2 ELSE FALSE],
   [key \in OptionKeys |-> IF key = "decimalPrecision" THEN 2 ELSE TRUE]}

OptionSets ==
  PresetOptions
  \cup {[o EXCEPT ![key] = ~o[key]] : o \in PresetOptions, key \in OptionFlags}
  \cup {[o EXCEPT !["decimalPrecision"] = p] : o \in PresetOptions, p \in 0..MaxPrecision}

----------------------------------------------------------------------------
(* The page: a file is parsed, validated and optimized into an item, which
   can be optimized again from its original animation and downloaded.     *)

NoCall == [kind |-> "none"]

NoDownload == 0 - 1

\* optimizeLottie(animation, opts) as the caller sees it: the heap holds the
\* caller's object, and after the call what that object has become.
Called(animation, opts, r) ==
  [kind |-> "optimize", handler |-> "processFiles",
   animation |-> animation, options |-> opts,
   threw |-> r.threw, after |-> r.h[1], unused |-> r.unused,
   result |-> r.result]

\* a call that uses the options of the first render once items exist
OptimizeStale(animation, opts) ==
  Called(animation, IF items = <<>> THEN opts ELSE defaultOptions,
         optimizeLottie(<<animation>>, 1,
                        IF items = <<>> THEN opts ELSE defaultOptions))

Optimize(animation, opts) ==
  Called(animation, opts, optimizeLottie(<<animation>>, 1, opts))

Item(c) == [originalAnimation |-> c.after, result |-> c.result]

Init ==
  /\ json \in Files
  /\ options \in OptionSets
  /\ items = <<>>
  /\ error = ""
  /\ call = NoCall
  /\ download = NoDownload

\* processFiles for one file: validate, optimize, add the item
Processed(c) ==
  /\ call' = c
  /\ error' = IF c.threw THEN "Failed to process" ELSE ""
  /\ items' = IF c.threw THEN items ELSE <<Item(c)>>

ProcessFiles ==
  /\ items = <<>>
  /\ error = ""
  /\ IF ~validateLottie(json)
     THEN /\ error' = "Not a valid Lottie file"
          /\ call' = [kind |-> "rejected", animation |-> json]
          /\ UNCHANGED items
     ELSE Processed(Optimize(json, options))
  /\ UNCHANGED <<json, options, download>>

\* reoptimize: the item is optimized again from its original animation
Reoptimized(c) ==
  /\ call' = [c EXCEPT !.handler = "reoptimize"]
  /\ items' = IF c.threw THEN items ELSE <<Item(c)>>

Reoptimize ==
  /\ items # <<>>
  /\ Reoptimized(Optimize(items[1].originalAnimation, options))
  /\ UNCHANGED <<json, options, error, download>>

\* handleDownload: the size of the blob written
HandleDownload ==
  /\ items # <<>>
  /\ download' = StringifySize(items[1].result.optimizedAnimation)
  /\ UNCHANGED <<json, options, items, error, call>>

Next ==
  \/ ProcessFiles
  \/ Reoptimize
  \/ HandleDownload

Spec == Init /\ [][Next]_vars

----------------------------------------------------------------------------
(* The passes one at a time: a stage of optimizeLottie applied to a value,
   under the options of the page.                                         *)

\* layers whose hd is not a boolean or whose ty is not a number, at the top
\* level and nested in an asset
HiddenLayers ==
  Arr(<<O2("ty", N(4), "hd", N(1)), O1("ty", N(3)),
        O2("ty", N(4), "hd", Str("true")), O2("ty", Str("3"), "hd", Null),
        O2("ty", N(0), "hd", Bool(TRUE)), O2("ty", N(4), "hd", Bool(FALSE)),
        O1("ty", N(4))>>)

HiddenFiles ==
  {Doc(<<E("layers", HiddenLayers),
         E("assets", A2(O2("id", Str("a"), "layers", HiddenLayers),
                        O1("id", Str("b"))))>>),
   Doc(<<E("assets", A1(O2("id", Str("a"), "layers", HiddenLayers))),
         E("layers", Arr(<<>>))>>)}

\* animated properties on their own, one of them with a last keyframe that
\* has a time and no start value
Properties ==
  {Animated(k) : k \in Keyframes}
  \cup {Animated(<<O3("t", N(0), "s", A1(N(0)), "e", A1(N(100))), O1("t", N(30))>>),
        Static(A1(O2("t", N(0), "s", A1(N(1)))))}

\* a transform whose opacity is animated with the constant value [100]
ConstantFiles ==
  {Doc(<<E("layers",
          A1(O2("ty", N(4), "ks",
                O2("o", Animated(<<O2("t", N(0), "s", A1(N(100))),
                                   O2("t", N(10), "s", A1(N(100)))>>),
                   "r", Static(N(0))))))>>)}

PassInputs == Files \cup HiddenFiles \cup ConstantFiles \cup Properties

\* what a stage made of the value: whether its flag was set, whether it
\* raised, and the value it returned
Staged(pass, flag, animation, st) ==
  [kind |-> "pass", pass |-> pass, enabled |-> flag, animation |-> animation,
   threw |-> st.threw, result |-> IF st.threw THEN Undef ELSE st.h[st.r]]

\* the presets, and the presets with every precision of the slider
PassOptions ==
  PresetOptions
  \cup {[o EXCEPT !["decimalPrecision"] = p] : o \in PresetOptions, p \in 0..MaxPrecision}

PassInit ==
  /\ json \in PassInputs
  /\ options \in PassOptions
  /\ items = <<>>
  /\ error = ""
  /\ call = NoCall
  /\ download = NoDownload

\* The passes that take a LottieAnimation are given valid documents, the
\* passes that take any value are given every input.
RemoveHiddenLayersCall ==
  /\ call = NoCall
  /\ validateLottie(json)
  /\ call' = Staged("removeHiddenLayers", options.removeHiddenLayers, json,
                    ApplyRemoveHiddenLayers(Returned(<<json>>, 1), options))
  /\ UNCHANGED <<json, options, items, error, download>>

RemoveUnusedAssetsCall ==
  /\ call = NoCall
  /\ validateLottie(json)
  /\ call' = Staged("removeUnusedAssets", TRUE, json,
                    ApplyRemoveUnusedAssets(Returned(<<json>>, 1)))
  /\ UNCHANGED <<json, options, items, error, download>>

RemoveEmptyGroupsCall ==
  /\ call = NoCall
  /\ call' = Staged("removeEmptyGroups", options.removeEmptyGroups, json,
                    ApplyRemoveEmptyGroups(Returned(<<json>>, 1), options))
  /\ UNCHANGED <<json, options, items, error, download>>

SimplifyKeyframesCall ==
  /\ call = NoCall
  /\ call' = Staged("simplifyKeyframes", options.simplifyKeyframes, json,
                    ApplySimplifyKeyframes(Returned(<<json>>, 1), options))
  /\ UNCHANGED <<json, options, items, error, download>>

RemoveDefaultValuesCall ==
  /\ call = NoCall
  /\ call' = Staged("removeUnnecessaryProperties", options.removeDefaultValues, json,
                    ApplyRemoveDefaultValues(Returned(<<json>>, 1), options))
  /\ UNCHANGED <<json, options, items, error, download>>

RoundDecimalsCall ==
  /\ call = NoCall
  /\ call' = Staged("roundDecimals", options.roundDecimals, json,
                    ApplyRoundDecimals(Returned(<<json>>, 1), options))
  /\ UNCHANGED <<json, options, items, error, download>>

CollapseTransformsCall ==
  /\ call = NoCall
  /\ call' = Staged("collapseTransforms", options.collapseTransforms, json,
                    ApplyCollapseTransforms(Returned(<<json>>, 1), options))
  /\ UNCHANGED <<json, options, items, error, download>>

CollapseDuplicateKeyframesCall ==
  /\ call = NoCall
  /\ call' = Staged("collapseDuplicateKeyframes",
                    options.collapseDuplicateKeyframes, json,
                    ApplyCollapseDuplicateKeyframes(Returned(<<json>>, 1), options))
  /\ UNCHANGED <<json, options, items, error, download>>

\* the four aggressive passes, each under its flag, in every order
Orders ==
  {order \in [1..4 -> AggressiveFlags] :
     \A i, j \in 1..4 : order[i] = order[j] => i = j}

ApplyStage(name, st, opts) ==
  CASE name = "removeExpressions" -> ApplyRemoveExpressions(st, opts)
    [] name = "removeEffects" -> ApplyRemoveEffects(st, opts)
    [] name = "collapseTransforms" -> ApplyCollapseTransforms(st, opts)
    [] name = "collapseDuplicateKeyframes" -> ApplyCollapseDuplicateKeyframes(st, opts)

InOrder(order, st, opts) ==
  ApplyStage(order[4],
    ApplyStage(order[3],
      ApplyStage(order[2],
        ApplyStage(order[1], st, opts), opts), opts), opts)

Ordered(order, animation, st) ==
  [kind |-> "order", order |-> order, animation |-> animation,
   threw |-> st.threw, result |-> IF st.threw THEN Undef ELSE st.h[st.r]]

AggressiveCall ==
  /\ call = NoCall
  /\ \E order \in Orders :
       call' = Ordered(order, json, InOrder(order, Returned(<<json>>, 1), options))
  /\ UNCHANGED <<json, options, items, error, download>>

PassNext ==
  \/ RemoveHiddenLayersCall
  \/ RemoveUnusedAssetsCall
  \/ RemoveEmptyGroupsCall
  \/ SimplifyKeyframesCall
  \/ RemoveDefaultValuesCall
  \/ RoundDecimalsCall
  \/ CollapseTransformsCall
  \/ CollapseDuplicateKeyframesCall
  \/ AggressiveCall

PassSpec == PassInit /\ [][PassNext]_vars

----------------------------------------------------------------------------
(* The notions the properties are stated with *)

\* a call of optimizeLottie that returned
Returns == call.kind = "optimize" /\ ~call.threw

Input == call.animation

Output == call.result.optimizedAnimation

AllOff(opts) == \A key \in OptionFlags : ~opts[key]

\* the asset list of a document
AssetsOf(doc) ==
  IF IsArr(Get(doc, "assets")) THEN Get(doc, "assets").v ELSE <<>>

AssetIds(doc) ==
  {Get(AssetsOf(doc)[i], "id").v :
     i \in {j \in DOMAIN AssetsOf(doc) : Get(AssetsOf(doc)[j], "id").t = "str"}}

\* the string refIds of the objects in x, at any depth
RECURSIVE References(_)
References(x) ==
  CASE x.t = "arr" -> UNION {References(x.v[i]) : i \in DOMAIN x.v}
    [] x.t = "obj" ->
         (IF Get(x, "refId").t = "str" THEN {Get(x, "refId").v} ELSE {})
         \cup UNION {References(x.v[i].v) : i \in DOMAIN x.v}
    [] OTHER -> {}

\* the ids referenced in the nested layers of the assets with an id in ids
NestedReferences(doc, ids) ==
  UNION {References(Get(AssetsOf(doc)[i], "layers")) :
           i \in {j \in DOMAIN AssetsOf(doc) :
                    /\ Get(AssetsOf(doc)[j], "id").t = "str"
                    /\ Get(AssetsOf(doc)[j], "id").v \in ids}}

RECURSIVE Closure(_, _)
Closure(doc, ids) ==
  IF NestedReferences(doc, ids) \subseteq ids THEN ids
  ELSE Closure(doc, ids \cup NestedReferences(doc, ids))

\* the ids a chain of references reaches from the layers of the document
Live(doc) == Closure(doc, References(Get(doc, "layers")))

IsLive(doc, asset) ==
  Get(asset, "id").t = "str" /\ Get(asset, "id").v \in Live(doc)

RequiredFields == {"v", "fr", "ip", "op", "w", "h"}

\* a non-null object whose v is a string and whose fr, ip, op, w and h are
\* numbers
WellFormed(x) ==
  /\ IsObj(x)
  /\ Get(x, "v").t = "str"
  /\ \A key \in RequiredFields \ {"v"} : Get(x, key).t = "num"

\* the document without the assets no chain of references reaches
WithoutDeadAssets(doc) ==
  IF IsArr(Get(doc, "assets"))
  THEN Put(doc, "assets",
           Arr(SelectSeq(AssetsOf(doc), LAMBDA asset : IsLive(doc, asset))))
  ELSE doc

----------------------------------------------------------------------------
(* The properties *)

\* C1: after optimizeLottie(d, o) has returned, the caller's document d is
\* deep-equal to its value before the call, whatever passes are enabled.
InputNotMutated == Returns => call.after = call.animation

\* a call returned a document without the metadata of its input, and the
\* input still has it
InputNotMutatedWitness ==
  /\ Returns
  /\ call.options.removeMetadata
  /\ Has(Input, "meta")
  /\ ~Has(Output, "meta")
  /\ Has(call.after, "meta")

\* C2: every asset of the optimized output is reached by a chain of refId
\* references that starts at a layer of the output.
OutputAssetsLive ==
  Returns =>
    \A i \in DOMAIN AssetsOf(Output) : IsLive(Output, AssetsOf(Output)[i])

\* C3: removeUnusedAssets keeps every asset whose id is referenced in the
\* top-level layers or in the nested layers of an asset that is kept.
LiveAssetsKept ==
  (call.kind = "optimize" /\ Len(call.unused) = 2) =>
    \A i \in DOMAIN AssetsOf(call.unused[1]) :
      IsLive(call.unused[1], AssetsOf(call.unused[1])[i]) =>
        \E j \in DOMAIN AssetsOf(call.unused[2]) :
          AssetsOf(call.unused[2])[j] = AssetsOf(call.unused[1])[i]

\* C4: every refId of the optimized output that named an asset of the input
\* names an asset of the output.
ReferencesResolve ==
  Returns => References(Output) \cap AssetIds(Input) \subseteq AssetIds(Output)

\* C5: the optimized document of a valid document is valid.
OutputValid == (Returns /\ validateLottie(Input)) => validateLottie(Output)

\* C6: the optimized document of a valid document has the six required
\* fields with the values of the input.
RequiredFieldsKept ==
  (Returns /\ validateLottie(Input)) =>
    \A key \in RequiredFields : Get(Output, key) = Get(Input, key)

\* C7: optimizeLottie does not throw on a valid document.
NeverThrows ==
  (call.kind = "optimize" /\ validateLottie(Input)) => ~call.threw

\* C8: optimizedSize is at most originalSize.
SizeNeverGrows == Returns => call.result.optimizedSize <= call.result.originalSize

\* C9: validateLottie accepts a value exactly when it is a non-null object
\* whose v is a string and whose fr, ip, op, w and h are numbers; otherwise
\* the file is rejected with a message, whatever its layers and assets are.
ValidatesRequiredFields ==
  /\ call.kind = "optimize" => WellFormed(call.animation)
  /\ call.kind = "rejected" =>
       ~WellFormed(call.animation) /\ error = "Not a valid Lottie file"
  /\ (items # <<>> \/ error # "") => call.kind # "none"

\* an object with five of the six fields was rejected
ValidatesRequiredFieldsWitness ==
  /\ call.kind = "rejected"
  /\ IsObj(call.animation)
  /\ \A key \in RequiredFields \ {"h"} : Has(call.animation, key)
  /\ ~Has(call.animation, "h")

\* C10: with every pass flag false the optimized document is the input
\* without the assets that no chain of references from the layers reaches.
DisabledPassesNotApplied ==
  (Returns /\ AllOff(call.options)) => Output = WithoutDeadAssets(Input)

\* the fraction q is a number, and the number 0
IsNumber(q) == q.d # 0

IsZero(q) == IsNumber(q) /\ q.n = 0

SizesConsistent ==
  /\ Returns =>
       /\ call.result.originalSize = StringifySize(call.animation)
       /\ call.result.optimizedSize = StringifySize(call.result.optimizedAnimation)
       /\ call.result.savings =
            call.result.originalSize - call.result.optimizedSize
  /\ download # NoDownload => download = items[1].result.optimizedSize

\* an optimized document smaller than its input was downloaded
SizesConsistentWitness ==
  /\ Returns
  /\ download # NoDownload
  /\ download < call.result.originalSize
  /\ call.result.optimizedAnimation # call.animation

Passed(pass) ==
  call.kind = "pass" /\ call.pass = pass /\ call.enabled /\ ~call.threw

\* an animated property: a = 1 and k an array whose first element is an
\* object with a time field
IsAnimatedSequence(x) ==
  /\ IsObj(x)
  /\ Get(x, "a") = N(1)
  /\ IsArr(Get(x, "k"))
  /\ Len(Get(x, "k").v) > 0
  /\ IsObj(Get(x, "k").v[1])
  /\ Has(Get(x, "k").v[1], "t")

\* every keyframe of the array has a start value, and all of them are equal
SameStartValues(k) ==
  \A i \in DOMAIN k.v :
    /\ Has(k.v[i], "s")
    /\ Get(k.v[i], "s") = Get(k.v[1], "s")

\* C14: collapseDuplicateKeyframes replaces an animated property by the
\* static { a: 0, k: v } when every keyframe has the same start value v, and
\* leaves it animated when a keyframe has no start value or another one.
ConstantKeyframesOnly ==
  (Passed("collapseDuplicateKeyframes") /\ IsAnimatedSequence(call.animation)) =>
    IF SameStartValues(Get(call.animation, "k"))
    THEN call.result = O2("a", N(0), "k", Get(Get(call.animation, "k").v[1], "s"))
    ELSE Get(call.result, "a") = N(1)

\* the layers whose hd is not true and whose ty is not 3, in their order
VisibleLayers(layers) ==
  Arr(SelectSeq(layers.v,
                LAMBDA layer : Get(layer, "hd") # Bool(TRUE) /\ Get(layer, "ty") # N(3)))

\* x with its layer list replaced by the visible layers
WithVisibleLayers(x) ==
  IF IsArr(Get(x, "layers"))
  THEN Put(x, "layers", VisibleLayers(Get(x, "layers")))
  ELSE x

\* the document with every layer list so replaced, and nothing else changed
WithoutHiddenLayers(doc) ==
  IF IsArr(Get(WithVisibleLayers(doc), "assets"))
  THEN Put(WithVisibleLayers(doc), "assets",
           Arr([i \in DOMAIN AssetsOf(doc) |-> WithVisibleLayers(AssetsOf(doc)[i])]))
  ELSE WithVisibleLayers(doc)

\* C15: removeHiddenLayers keeps, in the top-level and in every asset's
\* layer list, exactly the layers whose hd is not true and whose ty is not 3,
\* in their order, and changes nothing else of the serialized document.
HiddenLayersRemoved ==
  Passed("removeHiddenLayers") =>
    JsonRoundTrip(call.result) = WithoutHiddenLayers(call.animation)

\* layers with a hidden flag 1, "true", null and false were kept and two
\* layers were dropped, at the top level and in an asset
HiddenLayersRemovedWitness ==
  /\ Passed("removeHiddenLayers")
  /\ Get(call.animation, "layers") = HiddenLayers
  /\ Len(Get(call.result, "layers").v) = Len(HiddenLayers.v) - 2
  /\ Get(call.result, "layers").v[1] = O2("ty", N(4), "hd", N(1))
  /\ Get(AssetsOf(call.result)[1], "layers") = Get(call.result, "layers")

\* an object with ty = "gr" whose it array has 0 or 1 entries
DegenerateGroup(x) ==
  IsObj(x) /\ Get(x, "ty") = Str("gr") /\ IsArr(Get(x, "it")) /\ Len(Get(x, "it").v) <= 1

\* no array at any depth of x holds a degenerate group
RECURSIVE NoDegenerateGroups(_)
NoDegenerateGroups(x) ==
  CASE x.t = "arr" ->
         \A i \in DOMAIN x.v : ~DegenerateGroup(x.v[i]) /\ NoDegenerateGroups(x.v[i])
    [] x.t = "obj" -> \A i \in DOMAIN x.v : NoDegenerateGroups(x.v[i].v)
    [] OTHER -> TRUE

\* x pruned bottom-up: the children first, then the entries of an array
\* that are degenerate once pruned
RECURSIVE Pruned(_)
Pruned(x) ==
  CASE x.t = "arr" ->
         Arr(SelectSeq([i \in DOMAIN x.v |-> Pruned(x.v[i])],
                       LAMBDA item : ~DegenerateGroup(item)))
    [] x.t = "obj" -> Obj([i \in DOMAIN x.v |-> E(x.v[i].k, Pruned(x.v[i].v))])
    [] OTHER -> x

\* the shapes of the first layer of a document
ShapesOf(doc) ==
  IF IsArr(Get(doc, "layers")) /\ Len(Get(doc, "layers").v) > 0
  THEN Get(Get(doc, "layers").v[1], "shapes")
  ELSE Undef

\* C16: after removeEmptyGroups no array at any depth holds a group with 0
\* or 1 items, a group left with at most one item by the removal of its own
\* children included, and every other entry is kept in its order.
NoEmptyGroupsLeft ==
  Passed("removeEmptyGroups") =>
    /\ NoDegenerateGroups(call.result)
    /\ call.result = Pruned(call.animation)

\* a group of two items, one of them an empty group, was removed
NoEmptyGroupsLeftWitness ==
  /\ Passed("removeEmptyGroups")
  /\ ShapesOf(call.animation) =
       A1(O2("ty", Str("gr"), "it",
             A2(O1("ty", Str("fl")), O2("ty", Str("gr"), "it", Arr(<<>>)))))
  /\ ShapesOf(call.result) = Arr(<<>>)

\* the transform of the first layer of a document
KsOf(doc) ==
  IF IsArr(Get(doc, "layers")) /\ Len(Get(doc, "layers").v) > 0
  THEN Get(Get(doc, "layers").v[1], "ks")
  ELSE Undef

\* a sub-property whose animated flag is 0 or absent
IsStatic(prop) ==
  IsObj(prop) /\ (Get(prop, "a") = N(0) \/ ~Has(prop, "a"))

\* the default of a transform sub-property, and 0 - 1 for another key
DefaultOf(tKey) ==
  CASE tKey = "o" -> 100
    [] tKey = "r" -> 0
    [] tKey = "p" -> 0
    [] tKey = "a" -> 0
    [] tKey = "s" -> 100
    [] OTHER -> 0 - 1

\* k is the default in any form: the scalar, or an array of one or more
\* elements that are all the default
DefaultInAnyForm(tKey, k) ==
  /\ tKey \in {"o", "r", "p", "a", "s"}
  /\ \/ k = N(DefaultOf(tKey))
     \/ IsArr(k) /\ Len(k.v) >= 1 /\ \A i \in DOMAIN k.v : k.v[i] = N(DefaultOf(tKey))

\* C17: within a ks object collapseTransforms drops a sub-property o, r, p,
\* a or s exactly when its animated flag is 0 or absent and its k is the
\* default, given as a scalar or as an array of one or more elements; the
\* other entries are kept in their order, and with the flag false the
\* document, a static opacity 100 included, is unchanged.
IdentityTransformsCollapsed ==
  /\ (Passed("collapseTransforms") /\ IsObj(KsOf(call.animation))) =>
       KsOf(call.result) =
         Obj(SelectSeq(KsOf(call.animation).v,
                       LAMBDA e : ~(IsStatic(e.v) /\ DefaultInAnyForm(e.k, Get(e.v, "k")))))
  /\ (call.kind = "pass" /\ call.pass = "collapseTransforms" /\ ~call.enabled) =>
       call.result = call.animation

\* the control values of one coordinate of a handle: the number itself or
\* the elements of the array
ControlValues(c) ==
  CASE IsArr(c) -> {c.v[i] : i \in DOMAIN c.v}
    [] OTHER -> {c}

\* a number within 0.01 of 0.5
WithinTolerance(x) ==
  /\ x.t = "num"
  /\ x.v - Unit \div 2 < Unit \div 100
  /\ Unit \div 2 - x.v < Unit \div 100

\* a handle whose x and y control values are all within 0.01 of 0.5
LinearHandle(handle) ==
  /\ IsObj(handle)
  /\ Has(handle, "x") /\ Has(handle, "y")
  /\ ControlValues(Get(handle, "x")) # {}
  /\ ControlValues(Get(handle, "y")) # {}
  /\ \A x \in ControlValues(Get(handle, "x")) \cup ControlValues(Get(handle, "y")) :
       WithinTolerance(x)

\* a keyframe without its i and o handles that are linear
WithoutLinearHandles(kf) ==
  IF IsObj(kf)
  THEN Obj(SelectSeq(kf.v, LAMBDA e : ~(e.k \in {"i", "o"} /\ LinearHandle(e.v))))
  ELSE kf

\* C18: in a keyframe sequence simplifyKeyframes drops the i or o handle of
\* a keyframe exactly when all x and all y control values of the handle are
\* within 0.01 of 0.5, and every other field of every keyframe is unchanged.
LinearHandlesOnly ==
  (Passed("simplifyKeyframes") /\ IsAnimatedSequence(call.animation)) =>
    /\ IsArr(Get(call.result, "k"))
    /\ Len(Get(call.result, "k").v) = Len(Get(call.animation, "k").v)
    /\ \A i \in DOMAIN Get(call.animation, "k").v :
         Get(call.result, "k").v[i] = WithoutLinearHandles(Get(call.animation, "k").v[i])

\* the k array of the opacity of the first layer's transform
OpacityKeyframes(doc) == Get(Get(KsOf(doc), "o"), "k")

\* a non-empty array none of whose elements has a time field
UntimedArray(k) ==
  /\ IsArr(k)
  /\ Len(k.v) > 0
  /\ \A i \in DOMAIN k.v : ~(IsObj(k.v[i]) /\ Has(k.v[i], "t"))

\* no pass other than the two keyframe passes is enabled
KeyframePassesOnly(opts) ==
  \A key \in OptionFlags \ {"simplifyKeyframes", "collapseDuplicateKeyframes"} :
    ~opts[key]

\* C19: an asset that is an object without an id field is, unchanged, in the
\* asset list of the optimized animation, and a k array whose elements have
\* no time field comes out of the keyframe passes as the same array.
MalformedLeftUnchanged ==
  Returns =>
    /\ \A i \in DOMAIN AssetsOf(Input) :
         (IsObj(AssetsOf(Input)[i]) /\ ~Has(AssetsOf(Input)[i], "id")) =>
           \E j \in DOMAIN AssetsOf(Output) : AssetsOf(Output)[j] = AssetsOf(Input)[i]
    /\ (KeyframePassesOnly(call.options) /\ UntimedArray(OpacityKeyframes(Input))) =>
         OpacityKeyframes(Output) = OpacityKeyframes(Input)

\* the second half of C19 alone
UntimedArraysLeftUnchanged ==
  (Returns /\ KeyframePassesOnly(call.options) /\ UntimedArray(OpacityKeyframes(Input))) =>
    OpacityKeyframes(Output) = OpacityKeyframes(Input)

\* a run of a keyframe pass over an array without time fields
UntimedArraysLeftUnchangedWitness ==
  /\ Returns
  /\ call.options.simplifyKeyframes \/ call.options.collapseDuplicateKeyframes
  /\ KeyframePassesOnly(call.options)
  /\ UntimedArray(OpacityKeyframes(Input))
  /\ IsObj(OpacityKeyframes(Input).v[1])

\* an entry that is a default: a null value, a key mn, ln or cl, a string
\* nm, a numeric ix or cix, bm = 0, ddd = 0, ao = 0, sr = 1 or hd = false
DefaultEntry(e) ==
  \/ e.v = Null
  \/ e.k \in {"mn", "ln", "cl"}
  \/ e.k = "nm" /\ e.v.t = "str"
  \/ e.k \in {"ix", "cix"} /\ e.v.t = "num"
  \/ e.k \in {"bm", "ddd", "ao"} /\ e.v = N(0)
  \/ e.k = "sr" /\ e.v = N(1)
  \/ e.k = "hd" /\ e.v = Bool(FALSE)

\* no object of x, at any depth, has a default entry
RECURSIVE NoDefaultEntries(_)
NoDefaultEntries(x) ==
  CASE x.t = "arr" -> \A i \in DOMAIN x.v : NoDefaultEntries(x.v[i])
    [] x.t = "obj" ->
         \A i \in DOMAIN x.v : ~DefaultEntry(x.v[i]) /\ NoDefaultEntries(x.v[i].v)
    [] OTHER -> TRUE

\* out is x with the default entries dropped at every depth and nothing
\* else changed: arrays keep their length and their null elements, objects
\* keep their other entries in their order
RECURSIVE OnlyDefaultsDropped(_, _)
OnlyDefaultsDropped(x, out) ==
  CASE x.t = "arr" ->
         /\ IsArr(out)
         /\ Len(out.v) = Len(x.v)
         /\ \A i \in DOMAIN x.v : OnlyDefaultsDropped(x.v[i], out.v[i])
    [] x.t = "obj" ->
         LET kept == SelectSeq(x.v, LAMBDA e : ~DefaultEntry(e))
         IN /\ IsObj(out)
            /\ Len(out.v) = Len(kept)
            /\ \A i \in DOMAIN kept :
                 /\ out.v[i].k = kept[i].k
                 /\ OnlyDefaultsDropped(kept[i].v, out.v[i].v)
    [] OTHER -> out = x

\* C20: the result of removeUnnecessaryProperties has no default entry at
\* any depth, and every other entry is kept with its value rewritten the
\* same way: bm, ddd, ao, sr and hd with another value, a nm that is no
\* string, null array elements and all array lengths are as in the input.
DefaultsRemoved ==
  Passed("removeUnnecessaryProperties") =>
    /\ NoDefaultEntries(call.result)
    /\ OnlyDefaultsDropped(call.animation, call.result)

\* a layer lost its null ln and kept ao = 1, sr = 2, bm = 1 and the
\* numeric nm
DefaultsRemovedWitness ==
  /\ Passed("removeUnnecessaryProperties")
  /\ IsArr(Get(call.animation, "layers"))
  /\ Len(Get(call.animation, "layers").v) > 0
  /\ Get(Get(call.animation, "layers").v[1], "ln") = Null
  /\ Get(Get(call.animation, "layers").v[1], "nm") = N(5)
  /\ ~Has(Get(call.result, "layers").v[1], "ln")
  /\ Get(Get(call.result, "layers").v[1], "nm") = N(5)
  /\ Get(Get(call.result, "layers").v[1], "ao") = N(1)
  /\ Get(Get(call.result, "layers").v[1], "sr") = N(2)
  /\ Get(Get(call.result, "layers").v[1], "bm") = N(1)

\* an array kept its null element
NullElementKeptWitness ==
  /\ Passed("removeUnnecessaryProperties")
  /\ Get(call.animation, "layers") = A1(Null)
  /\ Get(call.result, "layers") = A1(Null)

\* r is a multiple of 10^-p nearest to x
NearestMultiple(x, r, p) ==
  LET step == 10 ^ (MaxPrecision - p)
  IN /\ r % step = 0
     /\ 2 * (r - x) <= step
     /\ 2 * (x - r) <= step

\* out is x with every number, at every depth and under every key, rounded
\* to p decimals and nothing else changed: strings, booleans and nulls, the
\* keys of every object and the length and order of every array
RECURSIVE RoundedTo(_, _, _)
RoundedTo(x, out, p) ==
  CASE x.t = "num" -> out.t = "num" /\ NearestMultiple(x.v, out.v, p)
    [] x.t = "arr" ->
         /\ IsArr(out)
         /\ Len(out.v) = Len(x.v)
         /\ \A i \in DOMAIN x.v : RoundedTo(x.v[i], out.v[i], p)
    [] x.t = "obj" ->
         /\ IsObj(out)
         /\ Len(out.v) = Len(x.v)
         /\ \A i \in DOMAIN x.v :
              out.v[i].k = x.v[i].k /\ RoundedTo(x.v[i].v, out.v[i].v, p)
    [] OTHER -> out = x

\* C21: roundDecimals replaces every numeric leaf by the nearest multiple of
\* 10^-p for the precision p in 0..4, leaves strings, booleans, nulls, keys
\* and arrays' lengths and orders unchanged, and applied a second time with
\* the same p changes nothing.
NumbersRounded ==
  Passed("roundDecimals") =>
    /\ RoundedTo(call.animation, call.result, options.decimalPrecision)
    /\ roundDecimals(call.result, options.decimalPrecision) = call.result

\* precision 1 turned the opacity 1.2345 into 1.2 and the frame rate 29.976
\* into 30
NumbersRoundedWitness ==
  /\ Passed("roundDecimals")
  /\ options.decimalPrecision = 1
  /\ Get(call.animation, "fr") = Num(299760)
  /\ Get(call.result, "fr") = N(30)
  /\ IsObj(KsOf(call.animation))
  /\ Get(KsOf(call.animation), "o") = Static(Num(12345))
  /\ Get(KsOf(call.result), "o") = Static(Num(12000))

\* C22: the aggressive passes applied in any order give what they give in
\* the order of optimizeLottie: they raise in the one when they raise in the
\* other and return the same document.
AggressiveOrderFree ==
  call.kind = "order" =>
    LET code == Aggressive(Returned(<<call.animation>>, 1), options)
    IN /\ call.threw = code.threw
       /\ ~code.threw => call.result = code.h[code.r]

\* C22, the particular case: collapseTransforms and collapseDuplicateKeyframes
\* in either order, after the other two passes, give the same document.
CollapsesCommute ==
  (/\ call.kind = "order"
   /\ call.order = <<"removeExpressions", "removeEffects",
                     "collapseDuplicateKeyframes", "collapseTransforms">>) =>
    LET code == Aggressive(Returned(<<call.animation>>, 1), options)
    IN /\ call.threw = code.threw
       /\ ~code.threw => call.result = code.h[code.r]

====
